---- MODULE Spec2Model ----
(***************************************************************************)
(* Model of the HomeKit data logger (src/homekit_logger.py): the sensor    *)
(* registry validation, the measurement parser, the SQLite readings table  *)
(* with its additive migration, and the HTTP handlers /log, /readings,     *)
(* /readings/csv and /health.                                               *)
(*                                                                         *)
(* Conventions.  Text is a sequence of one-character strings.  An optional *)
(* value (Python None / SQL NULL) is the empty sequence <<>>, a present    *)
(* value v is <<v>>.  A float is the record [m, e] standing for m * 10^e   *)
(* with m not divisible by 10 (0 is [m |-> 0, e |-> 0]), so that equal     *)
(* numbers are equal records.                                              *)
(*                                                                         *)
(* The handlers are modelled as they run when flask-limiter is absent      *)
(* (NoOpLimiter, lines 119-126): a request that a rate limit or the body   *)
(* size limit turns away never reaches a handler.                          *)
(***************************************************************************)
EXTENDS Integers, Sequences, FiniteSets, TLC

\* ------------------------------------------------------------------ bounds
MaxRawLen == 3
MaxFieldLen == 2
MaxSensors == 2
MaxRows == 2
MaxTime == 1
MaxThreads == 2

\* ------------------------------------------------------- program constants
MAX_READINGS_LIMIT == 10000
DEFAULT_LIMIT == 100
FETCH_SIZE == 1000

VARIABLES
    proc,        \* "stopped" | "serving": the server process
    boot,        \* outcome of the last main(): "none" | "ok" | "ConfigError" | "StorageError"
    API_KEY,     \* <<>> when HOMEKIT_API_KEY is unset, else <<token>>
    SENSORS,     \* the registry of the running process: sequence of descriptors
    tableExists, \* the readings table exists in the database file
    columns,     \* column names of the readings table, in table order
    rows,        \* the rows of the readings table
    sqlite_seq,  \* AUTOINCREMENT bookkeeping: largest rowid ever used
    now,         \* the wall clock, in seconds (CURRENT_TIMESTAMP)
    req,         \* the last request a handler received
    resp,        \* the response it produced
    assigned,    \* history: ids returned by successful inserts, in order
    pin, pout,   \* measurement parser: input value and result
    vin, vout,   \* registry validation: input descriptors and outcome
    storage,     \* "ok" | "failing": whether the database raises sqlite3.Error
    conns,       \* per worker thread: the POST /log it is handling, step by step
    lock         \* the thread whose connection holds the write lock, 0 for none

vars == <<proc, boot, API_KEY, SENSORS, tableExists, columns, rows, sqlite_seq,
          now, req, resp, assigned, pin, pout, vin, vout, storage, conns, lock>>

\* ============================================================ text helpers
Digits == {"0", "1", "2", "3", "4", "5", "6", "7", "8", "9"}
LowerLetters == {"a", "b", "c", "d", "e", "f", "g", "h", "i", "j", "k", "l", "m",
                 "n", "o", "p", "q", "r", "s", "t", "u", "v", "w", "x", "y", "z"}
Whitespace == {" ", "\n", "\t"}

DigitVal(c) ==
    CASE c = "0" -> 0 [] c = "1" -> 1 [] c = "2" -> 2 [] c = "3" -> 3 [] c = "4" -> 4
      [] c = "5" -> 5 [] c = "6" -> 6 [] c = "7" -> 7 [] c = "8" -> 8 [] c = "9" -> 9

DigitChar(n) ==
    CASE n = 0 -> "0" [] n = 1 -> "1" [] n = 2 -> "2" [] n = 3 -> "3" [] n = 4 -> "4"
      [] n = 5 -> "5" [] n = 6 -> "6" [] n = 7 -> "7" [] n = 8 -> "8" [] n = 9 -> "9"

RECURSIVE SeqsUpTo(_, _)
SeqsUpTo(S, n) ==
    IF n = 0 THEN {<<>>}
    ELSE LET shorter == SeqsUpTo(S, n - 1)
         IN shorter \cup {Append(s, c) : s \in shorter, c \in S}

Last(s) == s[Len(s)]
Front(s) == SubSeq(s, 1, Len(s) - 1)

RECURSIVE Zeros(_)
Zeros(n) == IF n <= 0 THEN <<>> ELSE <<"0">> \o Zeros(n - 1)

RECURSIVE NatStr(_)
NatStr(n) == IF n < 10 THEN <<DigitChar(n)>> ELSE Append(NatStr(n \div 10), DigitChar(n % 10))

RECURSIVE DigitsToInt(_)
DigitsToInt(s) == IF s = <<>> THEN 0 ELSE 10 * DigitsToInt(Front(s)) + DigitVal(Last(s))

\* number of consecutive decimal digits of s starting at position i
RECURSIVE DigitRun(_, _)
DigitRun(s, i) == IF i <= Len(s) /\ s[i] \in Digits THEN 1 + DigitRun(s, i + 1) ELSE 0

RECURSIVE Normalize(_, _)
Normalize(m, e) ==
    IF m = 0 THEN [m |-> 0, e |-> 0]
    ELSE IF m % 10 = 0 THEN Normalize(m \div 10, e + 1)
    ELSE [m |-> m, e |-> e]

\* ====================================================== measurement parser
\* A value as it arrives in a payload: JSON null, text, integer, float or boolean.
NoneRaw == [t |-> "none", s |-> <<>>, m |-> 0, e |-> 0]
StrRaw(s) == [t |-> "str", s |-> s, m |-> 0, e |-> 0]
IntRaw(n) == [t |-> "int", s |-> <<>>, m |-> n, e |-> 0]
FloatRaw(m, e) == [t |-> "float", s |-> <<>>, m |-> m, e |-> e]
BoolRaw(b) == [t |-> "bool", s |-> <<>>, m |-> IF b THEN 1 ELSE 0, e |-> 0]

IntStr(n) == IF n < 0 THEN <<"-">> \o NatStr(0 - n) ELSE NatStr(n)

\* str() of a float: the shortest decimal digits, in exponent notation when the
\* decimal point lies more than 16 digits right or more than 3 zeros left of them
FloatRepr(m, e) ==
    LET mag == IF m < 0 THEN 0 - m ELSE m
        D == NatStr(mag)
        n == Len(D)
        decpt == n + e
        sgn == IF m < 0 THEN <<"-">> ELSE <<>>
        ex == decpt - 1
        exDigits == NatStr(IF ex < 0 THEN 0 - ex ELSE ex)
        fixed == IF decpt <= 0 THEN <<"0", ".">> \o Zeros(0 - decpt) \o D
                 ELSE IF decpt >= n THEN D \o Zeros(decpt - n) \o <<".", "0">>
                 ELSE SubSeq(D, 1, decpt) \o <<".">> \o SubSeq(D, decpt + 1, n)
        expo == <<D[1]>> \o (IF n > 1 THEN <<".">> \o Tail(D) ELSE <<>>)
                \o <<"e", IF ex < 0 THEN "-" ELSE "+">>
                \o (IF Len(exDigits) < 2 THEN <<"0">> ELSE <<>>) \o exDigits
    IN IF m = 0 THEN <<"0", ".", "0">>
       ELSE sgn \o (IF decpt <= -4 \/ decpt > 16 THEN expo ELSE fixed)

PyStr(value) ==
    CASE value.t = "str" -> value.s
      [] value.t = "int" -> IntStr(value.m)
      [] value.t = "float" -> FloatRepr(value.m, value.e)
      [] value.t = "bool" -> IF value.m = 1 THEN <<"T", "r", "u", "e">>
                             ELSE <<"F", "a", "l", "s", "e">>
      [] value.t = "none" -> <<"N", "o", "n", "e">>

RECURSIVE LStrip(_)
LStrip(s) == IF s # <<>> /\ Head(s) \in Whitespace THEN LStrip(Tail(s)) ELSE s

RECURSIVE RStrip(_)
RStrip(s) == IF s # <<>> /\ Last(s) \in Whitespace THEN RStrip(Front(s)) ELSE s

Strip(s) == RStrip(LStrip(s))

\* \d*\.?\d+ from position i1, the greedy \d* giving back one digit at a time:
\* the position of the last matched character, 0 when nothing matches
RECURSIVE TryDigits(_, _, _)
TryDigits(s, i1, k) ==
    LET j == i1 + k
        dotHere == j <= Len(s) /\ s[j] = "."
        rDot == IF dotHere THEN DigitRun(s, j + 1) ELSE 0
        rNo == DigitRun(s, j)
    IN IF dotHere /\ rDot >= 1 THEN j + rDot
       ELSE IF rNo >= 1 THEN j + rNo - 1
       ELSE IF k = 0 THEN 0
       ELSE TryDigits(s, i1, k - 1)

\* MEASUREMENT_PATTERN.match(s): <<group 1>> or <<>> for no match
MEASUREMENT_PATTERN(s) ==
    LET signed == s # <<>> /\ s[1] \in {"-", "+"}
        withSign == IF signed THEN TryDigits(s, 2, DigitRun(s, 2)) ELSE 0
        noSign == TryDigits(s, 1, DigitRun(s, 1))
    IN IF withSign > 0 THEN <<SubSeq(s, 1, withSign)>>
       ELSE IF noSign > 0 THEN <<SubSeq(s, 1, noSign)>>
       ELSE <<>>

\* number of "0" characters that end the digit text d
RECURSIVE TrailingZeros(_)
TrailingZeros(d) == IF d # <<>> /\ Last(d) = "0" THEN 1 + TrailingZeros(Front(d)) ELSE 0

\* float(text) for text of the shape sign? digits* (. digits+)?
PyFloat(text) ==
    LET neg == text[1] = "-"
        body == IF text[1] \in {"-", "+"} THEN Tail(text) ELSE text
        dots == {i \in 1..Len(body) : body[i] = "."}
        dot == IF dots = {} THEN Len(body) + 1 ELSE CHOOSE i \in dots : TRUE
        ip == SubSeq(body, 1, dot - 1)
        fp == SubSeq(body, dot + 1, Len(body))
        z == TrailingZeros(ip \o fp)
        mag == DigitsToInt(SubSeq(ip \o fp, 1, Len(ip) + Len(fp) - z))
    IN Normalize(IF neg THEN 0 - mag ELSE mag, z - Len(fp))

parse_measurement(value) ==
    IF value.t = "none" THEN <<>>
    ELSE LET value_str == Strip(PyStr(value))
         IN IF value_str = <<>> THEN <<>>
            ELSE LET match == MEASUREMENT_PATTERN(value_str)
                 IN IF match # <<>> THEN <<PyFloat(match[1])>> ELSE <<>>

\* ===================================================== registry validation
FieldChars == LowerLetters \cup Digits \cup {"_"}

\* length of the run of [a-z0-9_] characters of f starting at position i
RECURSIVE FieldRun(_, _)
FieldRun(f, i) == IF i <= Len(f) /\ f[i] \in FieldChars THEN 1 + FieldRun(f, i + 1) ELSE 0

\* where $ matches: at the end of the text, or just before a newline that ends it
AtDollar(f, i) == i = Len(f) + 1 \/ (i = Len(f) /\ f[i] = "\n")

\* VALID_FIELD_PATTERN.match(field) is not None
VALID_FIELD_PATTERN(field) ==
    /\ Len(field) >= 1
    /\ field[1] \in LowerLetters
    /\ \E k \in 0..FieldRun(field, 2) : AtDollar(field, 2 + k)

\* sensor.get("field", ""): a descriptor is <<field>>, or <<>> when it has no field
SensorGet(sensor) == IF sensor = <<>> THEN <<>> ELSE sensor[1]

RECURSIVE ValidateFrom(_, _, _)
ValidateFrom(sensors, i, seen_fields) ==
    IF i > Len(sensors) THEN "ok"
    ELSE LET field == SensorGet(sensors[i])
         IN IF ~VALID_FIELD_PATTERN(field) THEN "ValueError"
            ELSE IF field \in seen_fields THEN "ValueError"
            ELSE ValidateFrom(sensors, i + 1, seen_fields \cup {field})

validate_sensors_config(sensors) == ValidateFrom(sensors, 1, {})

\* ================================================================ requests
ID == <<"i", "d">>
TIMESTAMP == <<"t", "i", "m", "e", "s", "t", "a", "m", "p">>
FA == <<"a">>
FB == <<"b">>
BOGUS == <<"b", "o", "g", "u", "s">>

Request(op, header, query, payload, limit) ==
    [op |-> op, header |-> header, query |-> query, payload |-> payload, limit |-> limit]

NoReq == Request("none", <<>>, <<>>, <<>>, <<>>)

R1 == StrRaw(<<"1">>)
R2 == StrRaw(<<"2", "%">>)
RX == StrRaw(<<"x">>)
RH == FloatRaw(15, -1)

\* --- inputs of Spec: every registry and payload, requests carrying the token k
\* registries main() may be started with (each descriptor is <<field>>)
Registries ==
    { <<>>,
      << <<FA>> >>,
      << <<FA>>, <<FB>> >>,
      << <<FB>>, <<ID>> >>,
      << <<TIMESTAMP>> >>,
      << <<FA>>, <<FA>> >> }

\* values of HOMEKIT_API_KEY: unset, empty, a token
ApiKeys == { <<>>, <<"">>, <<"k">> }

\* a payload is a mapping listed as <<key, value>> pairs with distinct keys
Payloads ==
    { <<>>,
      << <<BOGUS, R1>> >>,
      << <<FA, R1>> >>,
      << <<FA, RX>> >>,
      << <<FA, R2>>, <<FB, R1>> >>,
      << <<BOGUS, R2>>, <<FB, R2>> >>,
      << <<ID, R1>> >>,
      << <<ID, R2>>, <<FB, R1>> >>,
      << <<ID, RH>> >>,
      << <<TIMESTAMP, R1>> >> }

LogRequests ==
    {Request("log", <<"k">>, <<>>, p, <<>>) : p \in Payloads}
    \cup {Request("log", <<>>, <<>>, p, <<>>) : p \in {<<>>, << <<FA, R1>> >>}}

ReadingsRequests == {Request("readings", <<"k">>, <<>>, <<>>, <<>>)}

CsvRequests == {Request("csv", <<"k">>, <<>>, <<>>, <<>>)}

\* --- inputs of SpecAccess: every credential against every kind of key
AccessRegistries == { <<>>, << <<FA>> >>, << <<FA>>, <<FA>> >> }

\* credentials of a request: <<X-API-Key header, api_key query parameter>>
Credentials ==
    { << <<>>, <<>> >>, << <<"k">>, <<>> >>, << <<"K">>, <<>> >>, << <<>>, <<"k">> >>,
      << <<"x">>, <<"k">> >>, << <<"">>, <<"k">> >>, << <<"">>, <<"">> >>,
      << <<"">>, <<>> >> }

AccessLogRequests ==
    {Request("log", c[1], c[2], p, <<>>) :
        c \in Credentials, p \in {<<>>, << <<FA, R1>> >>}}

AccessReadingsRequests == {Request("readings", c[1], c[2], <<>>, <<>>) : c \in Credentials}

AccessCsvRequests == {Request("csv", c[1], c[2], <<>>, <<>>) : c \in Credentials}

\* --- inputs of SpecQuery: every limit over stores with equal, numeric and
\* missing timestamps
QueryRegistries == { <<>>, << <<FA>> >>, << <<TIMESTAMP>> >>, << <<FA>>, <<FA>> >> }

QueryLogRequests ==
    {Request("log", <<>>, <<>>, p, <<>>) :
        p \in {<<>>, << <<FA, R1>> >>, << <<TIMESTAMP, R1>> >>, << <<TIMESTAMP, RX>> >>}}

\* values of the limit query parameter: absent, or its text
LimitArgs ==
    { <<>>,
      << <<"0">> >>, << <<"1">> >>, << <<"2">> >>, << <<"-", "1">> >>,
      << <<" ", "2">> >>, << <<"1", "_", "0">> >>, << <<"1", ".", "5">> >>,
      << <<"x">> >>, << <<>> >>,
      << <<"1", "0", "0", "0", "0">> >>, << <<"1", "0", "0", "0", "1">> >> }

QueryReadingsRequests == {Request("readings", <<>>, <<>>, <<>>, l) : l \in LimitArgs}

QueryCsvRequests == {Request("csv", <<>>, <<>>, <<>>, <<>>)}

\* --- inputs of SpecFault: requests with and without the token, against a
\* database that raises errors at times
FaultRegistries ==
    { <<>>, << <<FA>> >>, << <<FB>> >>, << <<FA>>, <<FB>> >>, << <<FB>>, <<ID>> >>,
      << <<FA>>, <<FA>> >> }

FaultLogRequests ==
    {Request("log", h, <<>>, p, <<>>) :
        h \in {<<>>, <<"k">>},
        p \in {<<>>, << <<BOGUS, R1>> >>, << <<FA, R1>> >>, << <<FA, R2>>, <<FB, R1>> >>,
               << <<ID, RH>> >>}}

FaultReadingsRequests == {Request("readings", h, <<>>, <<>>, <<>>) : h \in {<<>>, <<"k">>}}

FaultCsvRequests == {Request("csv", h, <<>>, <<>>, <<>>) : h \in {<<>>, <<"k">>}}

\* --- inputs of SpecConcurrent: ingests handled by several threads at once
ConcurrentRegistries == { << <<FA>> >>, << <<FB>>, <<ID>> >> }

ConcurrentLogRequests ==
    {Request("log", <<>>, <<>>, p, <<>>) :
        p \in {<< <<BOGUS, R1>> >>, << <<FA, R1>> >>, << <<FA, R2>> >>,
               << <<ID, R1>> >>, << <<ID, RX>>, <<FB, R1>> >>}}

\* =============================================================== responses
Response(op, status, message) ==
    [op |-> op, status |-> status, message |-> message, id |-> 0, data |-> <<>>,
     limit |-> 0, rows |-> <<>>, lines |-> <<>>, count |-> 0, db |-> FALSE]

NoResp == Response("none", 0, "")

\* the worker threads of the server, and a thread that handles no request
Threads == 1..MaxThreads

Idle == [pc |-> "idle", req |-> NoReq, parsed_data |-> <<>>, row |-> <<>>,
         lastrowid |-> 0, resp |-> NoResp]

\* ============================================================== SQL values
NULL == [k |-> "null", i |-> 0, m |-> 0, e |-> 0]
IntV(n) == [k |-> "int", i |-> n, m |-> 0, e |-> 0]
RealV(f) == [k |-> "real", i |-> 0, m |-> f.m, e |-> f.e]
\* the text CURRENT_TIMESTAMP yields at clock second t
TextTime(t) == [k |-> "text", i |-> t, m |-> 0, e |-> 0]

RECURSIVE Pow10(_)
Pow10(n) == IF n <= 0 THEN 1 ELSE 10 * Pow10(n - 1)

IsIntegral(f) == f.e >= 0
IntOf(f) == f.m * Pow10(f.e)

\* a bound parameter (float or None) stored in a column of the given affinity
Store(affinity, v) ==
    IF v = <<>> THEN NULL
    ELSE IF affinity = "NUMERIC" /\ IsIntegral(v[1]) THEN IntV(IntOf(v[1]))
    ELSE RealV(v[1])

\* the number a numeric SQL value stands for, as mantissa and exponent
NumOf(v) == IF v.k = "int" THEN [m |-> v.i, e |-> 0] ELSE [m |-> v.m, e |-> v.e]

NumLess(a, b) ==
    LET lo == IF a.e < b.e THEN a.e ELSE b.e
    IN a.m * Pow10(a.e - lo) < b.m * Pow10(b.e - lo)

\* storage class order of ORDER BY: NULL, then numbers, then text
ClassRank(v) == CASE v.k = "null" -> 0 [] v.k \in {"int", "real"} -> 1 [] v.k = "text" -> 2

SqlLess(a, b) ==
    \/ ClassRank(a) < ClassRank(b)
    \/ /\ ClassRank(a) = 1 /\ ClassRank(b) = 1 /\ NumLess(NumOf(a), NumOf(b))
    \/ /\ a.k = "text" /\ b.k = "text" /\ a.i < b.i

RECURSIVE Perms(_)
Perms(S) ==
    IF S = {} THEN {<<>>}
    ELSE UNION {{<<x>> \o p : p \in Perms(S \ {x})} : x \in S}

\* the orders in which ORDER BY timestamp ASC / DESC may return the rows:
\* rows with equal timestamps come in an order SQL leaves undefined
OrderByTimestampDesc(S) ==
    {s \in Perms(S) :
        \A i, j \in 1..Len(s) : i < j => ~SqlLess(s[i][TIMESTAMP], s[j][TIMESTAMP])}

\* a variant that returns the newest rows first
OrderByTimestampAsc_Newest(S) == OrderByTimestampDesc(S)

OrderByTimestampAsc(S) ==
    {s \in Perms(S) :
        \A i, j \in 1..Len(s) : i < j => ~SqlLess(s[j][TIMESTAMP], s[i][TIMESTAMP])}

Range(s) == {s[i] : i \in 1..Len(s)}
Min(a, b) == IF a < b THEN a ELSE b
Max(a, b) == IF a > b THEN a ELSE b

\* ================================================================= storage
Fields(sensors) == [i \in 1..Len(sensors) |-> sensors[i][1]]

\* the affinity of a column: id is the rowid, timestamp is DATETIME (numeric),
\* every sensor column is REAL
Affinity(c) == IF c = ID THEN "INTEGER" ELSE IF c = TIMESTAMP THEN "NUMERIC" ELSE "REAL"

\* ALTER TABLE readings ADD COLUMN for each registry field from position i on
\* that the table did not have when the migration started
RECURSIVE AddMissing(_, _, _, _)
AddMissing(sensors, i, existing_columns, cols) ==
    IF i > Len(sensors) THEN cols
    ELSE LET field == sensors[i][1]
         IN AddMissing(sensors, i + 1, existing_columns,
                       IF field \notin existing_columns THEN Append(cols, field) ELSE cols)

\* init_db(): the table after it, and whether it raised sqlite3.Error.
\* a variant that rebuilds an existing table with the wanted columns, empty
init_db_Recreate(sensors) ==
    LET cols == <<ID, TIMESTAMP>> \o Fields(sensors)
        syntaxError == Len(sensors) = 0
        duplicate == \E i, j \in 1..Len(cols) : i < j /\ cols[i] = cols[j]
    IN IF syntaxError \/ duplicate
       THEN [error |-> TRUE, exists |-> tableExists, columns |-> columns, rows |-> rows]
       ELSE [error |-> FALSE, exists |-> TRUE, columns |-> cols, rows |-> {}]

\* CREATE TABLE fails on an empty column list and on a repeated column name.
init_db(sensors) ==
    IF ~tableExists
    THEN LET cols == <<ID, TIMESTAMP>> \o Fields(sensors)
             syntaxError == Len(sensors) = 0
             duplicate == \E i, j \in 1..Len(cols) : i < j /\ cols[i] = cols[j]
         IN IF syntaxError \/ duplicate
            THEN [error |-> TRUE, exists |-> FALSE, columns |-> <<>>, rows |-> {}]
            ELSE [error |-> FALSE, exists |-> TRUE, columns |-> cols, rows |-> {}]
    ELSE LET cols == AddMissing(sensors, 1, Range(columns), columns)
         IN [error |-> FALSE, exists |-> TRUE, columns |-> cols,
             rows |-> {[c \in Range(cols) |-> IF c \in DOMAIN r THEN r[c] ELSE NULL] :
                          r \in rows}]

\* what init_db() leaves behind when a statement raises sqlite3.Error: each DDL
\* statement is committed as it runs, so the statements before the failing one
\* have taken effect (the table created, some of the missing columns added)
init_db_Failing(sensors) ==
    IF ~tableExists
    THEN {[error |-> TRUE, exists |-> FALSE, columns |-> <<>>, rows |-> {}]}
         \cup (IF init_db(sensors).error THEN {}
               ELSE {[init_db(sensors) EXCEPT !.error = TRUE]})
    ELSE {[init_db(SubSeq(sensors, 1, k)) EXCEPT !.error = TRUE] : k \in 0..Len(sensors)}

\* the outcomes of init_db()
InitOutcomes(sensors) ==
    IF storage = "ok" THEN {init_db(sensors)} ELSE init_db_Failing(sensors)

\* ------------------------------------------------------------ access control
Truthy(opt) == opt # <<>> /\ opt[1] # ""
PyOr(a, b) == IF Truthy(a) THEN a ELSE b

Lower(opt) == IF opt = <<"K">> THEN <<"k">> ELSE opt

\* a variant that compares the tokens without regard to case
check_api_key_AnyCase(r) ==
    IF API_KEY = <<>> THEN FALSE
    ELSE LET provided_key == PyOr(r.header, r.query)
         IN Lower(provided_key) # Lower(API_KEY)

\* check_api_key(): TRUE when the request is turned away with 401
check_api_key(r) ==
    IF API_KEY = <<>> THEN FALSE
    ELSE LET provided_key == PyOr(r.header, r.query)
         IN provided_key # API_KEY

Unauthorized(op) == Response(op, 401, "Unauthorized")

\* ------------------------------------------------------------------- ingest
PayloadKeys(data) == {data[i][1] : i \in 1..Len(data)}
PayloadGet(data, key) == (CHOOSE i \in 1..Len(data) : data[i][1] = key)
PayloadValue(data, key) == data[PayloadGet(data, key)][2]

\* parsed_data: the registry fields present in the payload, in registry order,
\* each with its parsed value
RECURSIVE ParsedFrom(_, _, _)
ParsedFrom(sensors, i, data) ==
    IF i > Len(sensors) THEN <<>>
    ELSE LET field == sensors[i][1]
         IN (IF field \in PayloadKeys(data)
             THEN << <<field, parse_measurement(PayloadValue(data, field))>> >>
             ELSE <<>>)
            \o ParsedFrom(sensors, i + 1, data)

\* a variant that takes every key of the payload, registered or not
ParsedData_AnyKey(sensors, data) ==
    [i \in 1..Len(data) |-> <<data[i][1], parse_measurement(data[i][2])>>]

ParsedData(sensors, data) == ParsedFrom(sensors, 1, data)

ParsedKeys(parsed_data) == {parsed_data[i][1] : i \in 1..Len(parsed_data)}
ParsedValue(parsed_data, key) ==
    parsed_data[CHOOSE i \in 1..Len(parsed_data) : parsed_data[i][1] = key][2]

MaxRowid == IF rows = {} THEN 0
            ELSE CHOOSE n \in {r[ID].i : r \in rows} : \A r \in rows : r[ID].i <= n

\* INSERT INTO readings (<keys of parsed_data>) VALUES (...): the new row and
\* its rowid, or an IntegrityError (id not an integer, or id already used)
Insert(parsed_data) ==
    LET keys == ParsedKeys(parsed_data)
        given == IF ID \in keys THEN ParsedValue(parsed_data, ID) ELSE <<>>
        mismatch == given # <<>> /\ ~IsIntegral(given[1])
        rowid == IF given # <<>> /\ ~mismatch THEN IntOf(given[1])
                 ELSE Max(sqlite_seq, MaxRowid) + 1
        taken == \E r \in rows : r[ID].i = rowid
        row == [c \in Range(columns) |->
                   IF c = ID THEN IntV(rowid)
                   ELSE IF c \in keys THEN Store(Affinity(c), ParsedValue(parsed_data, c))
                   ELSE IF c = TIMESTAMP THEN TextTime(now)
                   ELSE NULL]
    IN IF mismatch \/ taken
       THEN [error |-> TRUE, row |-> <<>>, lastrowid |-> 0]
       ELSE [error |-> FALSE, row |-> row, lastrowid |-> rowid]

\* log_reading(): the response and the effect on the table
LogOutcome(r) ==
    LET data == r.payload
        parsed_data == ParsedData(SENSORS, data)
        ins == Insert(parsed_data)
        same == [rows |-> rows, seq |-> sqlite_seq, assigned |-> assigned]
    IN IF check_api_key(r) THEN [resp |-> Unauthorized("log")] @@ same
       ELSE IF data = <<>>
       THEN [resp |-> Response("log", 400, "No data received")] @@ same
       ELSE IF parsed_data = <<>>
       THEN [resp |-> Response("log", 400, "No valid sensor data found")] @@ same
       ELSE IF storage = "failing" \/ ins.error
       THEN [resp |-> [Response("log", 500, "Database error") EXCEPT !.db = TRUE]] @@ same
       ELSE [resp |-> [Response("log", 200, "success") EXCEPT
                          !.id = ins.lastrowid, !.data = parsed_data, !.db = TRUE],
             rows |-> rows \cup {ins.row},
             seq |-> Max(sqlite_seq, ins.lastrowid),
             assigned |-> Append(assigned, ins.lastrowid)]

\* ------------------------------------------------------------------- query
\* int(text): optional sign, digits with single underscores between them
PyInt(text) ==
    LET s == Strip(text)
        signed == s # <<>> /\ s[1] \in {"-", "+"}
        body == IF signed THEN Tail(s) ELSE s
        n == Len(body)
        wellFormed ==
            /\ n >= 1
            /\ \A i \in 1..n : body[i] \in Digits \cup {"_"}
            /\ body[1] # "_" /\ body[n] # "_"
            /\ \A i \in 1..(n - 1) : ~(body[i] = "_" /\ body[i + 1] = "_")
        digits == SelectSeq(body, LAMBDA c : c \in Digits)
        mag == DigitsToInt(digits)
    IN IF wellFormed THEN <<IF signed /\ s[1] = "-" THEN 0 - mag ELSE mag>> ELSE <<>>

\* request.args.get("limit", 100, type=int)
ArgsGetLimit(arg) ==
    IF arg = <<>> THEN DEFAULT_LIMIT
    ELSE LET rv == PyInt(arg[1]) IN IF rv = <<>> THEN DEFAULT_LIMIT ELSE rv[1]

\* a variant without the floor of 1
EffectiveLimit_NoFloor(arg) == Min(ArgsGetLimit(arg), MAX_READINGS_LIMIT)

EffectiveLimit(arg) == Max(1, Min(ArgsGetLimit(arg), MAX_READINGS_LIMIT))

\* the responses get_readings() may give
ReadingsOutcomes(r) ==
    IF check_api_key(r) THEN {Unauthorized("readings")}
    ELSE IF storage = "failing"
    THEN {[Response("readings", 500, "Database error") EXCEPT !.db = TRUE]}
    ELSE LET limit == EffectiveLimit(r.limit)
         IN {[Response("readings", 200, "") EXCEPT
                 !.limit = limit, !.rows = SubSeq(s, 1, Min(limit, Len(s))), !.db = TRUE] :
                s \in OrderByTimestampDesc(rows)}

\* ------------------------------------------------------------------ export
RECURSIVE Join(_)
Join(cells) ==
    IF cells = <<>> THEN <<>>
    ELSE IF Len(cells) = 1 THEN cells[1]
    ELSE cells[1] \o <<",">> \o Join(Tail(cells))

\* str(val) of a cell read back from SQLite, "" for NULL; the text of a
\* CURRENT_TIMESTAMP at second t is written T<t>
CellText(v) ==
    CASE v.k = "null" -> <<>>
      [] v.k = "int" -> IntStr(v.i)
      [] v.k = "real" -> FloatRepr(v.m, v.e)
      [] v.k = "text" -> <<"T">> \o NatStr(v.i)

CsvLine(cols, row) == Join([i \in 1..Len(cols) |-> CellText(row[cols[i]])]) \o <<"\n">>

\* the fetchmany(1000) loop over the result from position pos on
RECURSIVE FetchLoop(_, _, _)
FetchLoop(cols, result, pos) ==
    LET batch == SubSeq(result, pos, Min(pos + FETCH_SIZE - 1, Len(result)))
    IN IF batch = <<>> THEN <<>>
       ELSE [i \in 1..Len(batch) |-> CsvLine(cols, batch[i])]
            \o FetchLoop(cols, result, pos + Len(batch))

\* the line generate_csv() yields for a sqlite3.Error e: "Error: {e}\n"
ErrorLine == <<"E", "r", "r", "o", "r", ":", " ", "e", "\n">>

\* the responses export_csv() may give: the lines generate_csv() yields. The
\* Response is built with status 200 before the generator runs; an error raised
\* by execute() comes before the header, one raised by fetchmany() after it.
CsvOutcomes(r) ==
    IF check_api_key(r) THEN {Unauthorized("csv")}
    ELSE IF storage = "failing"
    THEN {[Response("csv", 200, "") EXCEPT !.lines = l, !.db = TRUE] :
             l \in {<<ErrorLine>>, <<Join(columns) \o <<"\n">>, ErrorLine>>}}
    ELSE {[Response("csv", 200, "") EXCEPT
              !.lines = <<Join(columns) \o <<"\n">> >> \o FetchLoop(columns, s, 1),
              !.db = TRUE] :
             s \in OrderByTimestampAsc(rows)}

\* ================================================================= actions
\* a variant that initialises the database before it validates the registry
Start_InitFirst(sensors, key) ==
    /\ proc = "stopped"
    /\ \E db \in InitOutcomes(sensors) :
          /\ boot' = IF db.error THEN "StorageError"
                     ELSE IF validate_sensors_config(sensors) # "ok" THEN "ConfigError"
                     ELSE "ok"
          /\ proc' = IF boot' = "ok" THEN "serving" ELSE "stopped"
          /\ tableExists' = db.exists
          /\ columns' = db.columns
          /\ rows' = db.rows
    /\ SENSORS' = sensors
    /\ API_KEY' = key
    /\ req' = NoReq
    /\ resp' = NoResp
    /\ UNCHANGED <<sqlite_seq, now, assigned, pin, pout, vin, vout,
                   storage, conns, lock>>

\* main(): validate the registry, initialise the database, serve
Start(sensors, key) ==
    /\ proc = "stopped"
    /\ IF validate_sensors_config(sensors) # "ok"
       THEN /\ boot' = "ConfigError"
            /\ UNCHANGED <<proc, tableExists, columns, rows>>
       ELSE \E db \in InitOutcomes(sensors) :
               /\ boot' = IF db.error THEN "StorageError" ELSE "ok"
               /\ proc' = IF db.error THEN "stopped" ELSE "serving"
               /\ tableExists' = db.exists
               /\ columns' = db.columns
               /\ rows' = db.rows
    /\ SENSORS' = sensors
    /\ API_KEY' = key
    /\ req' = NoReq
    /\ resp' = NoResp
    /\ UNCHANGED <<sqlite_seq, now, assigned, pin, pout, vin, vout,
                   storage, conns, lock>>

\* the process is terminated by its operator
Stop ==
    /\ proc = "serving"
    /\ proc' = "stopped"
    /\ req' = NoReq
    /\ resp' = NoResp
    /\ conns' = [t \in Threads |-> Idle]
    /\ lock' = 0
    /\ UNCHANGED <<boot, API_KEY, SENSORS, tableExists, columns, rows, sqlite_seq,
                   now, assigned, pin, pout, vin, vout, storage>>

\* the database starts to raise sqlite3.Error (file locked by another process,
\* unreadable, disk full), and stops doing so
Fail ==
    /\ storage = "ok"
    /\ storage' = "failing"
    /\ UNCHANGED <<proc, boot, API_KEY, SENSORS, tableExists, columns, rows,
                   sqlite_seq, now, req, resp, assigned, pin, pout, vin, vout,
                   conns, lock>>

Recover ==
    /\ storage = "failing"
    /\ storage' = "ok"
    /\ UNCHANGED <<proc, boot, API_KEY, SENSORS, tableExists, columns, rows,
                   sqlite_seq, now, req, resp, assigned, pin, pout, vin, vout,
                   conns, lock>>

\* a second of wall-clock time passes
Tick ==
    /\ now < MaxTime
    /\ now' = now + 1
    /\ UNCHANGED <<proc, boot, API_KEY, SENSORS, tableExists, columns, rows,
                   sqlite_seq, req, resp, assigned, pin, pout, vin, vout,
                   storage, conns, lock>>

\* POST /log
log_reading(r) ==
    /\ proc = "serving"
    /\ LET out == LogOutcome(r)
       IN /\ out.rows # rows => Cardinality(rows) < MaxRows
          /\ resp' = out.resp
          /\ rows' = out.rows
          /\ sqlite_seq' = out.seq
          /\ assigned' = out.assigned
    /\ req' = r
    /\ UNCHANGED <<proc, boot, API_KEY, SENSORS, tableExists, columns, now,
                   pin, pout, vin, vout,
                   storage, conns, lock>>

\* POST /log handled by the thread t, step by step. First the part that does
\* not touch the database: access control, the payload, parse_measurement.
log_reading_parse(t, r) ==
    /\ proc = "serving"
    /\ conns[t].pc \in {"idle", "returned"}
    /\ LET parsed_data == ParsedData(SENSORS, r.payload)
           refused ==
               IF check_api_key(r) THEN <<Unauthorized("log")>>
               ELSE IF r.payload = <<>>
               THEN <<Response("log", 400, "No data received")>>
               ELSE IF parsed_data = <<>>
               THEN <<Response("log", 400, "No valid sensor data found")>>
               ELSE <<>>
           inFlight == {u \in Threads \ {t} : conns[u].pc \in {"parsed", "executed"}}
       IN /\ refused = <<>> => Cardinality(rows) + Cardinality(inFlight) < MaxRows
          /\ conns' = [conns EXCEPT ![t] =
                          IF refused # <<>>
                          THEN [Idle EXCEPT !.pc = "returned", !.req = r,
                                            !.resp = refused[1]]
                          ELSE [Idle EXCEPT !.pc = "parsed", !.req = r,
                                            !.parsed_data = parsed_data]]
    /\ UNCHANGED <<proc, boot, API_KEY, SENSORS, tableExists, columns, rows,
                   sqlite_seq, now, req, resp, assigned, pin, pout, vin, vout,
                   storage, lock>>

\* the response of a thread whose connection raised sqlite3.Error
DatabaseError(c) ==
    [c EXCEPT !.pc = "returned", !.row = <<>>, !.lastrowid = 0,
              !.resp = [Response("log", 500, "Database error") EXCEPT !.db = TRUE]]

\* a variant of the INSERT that does not take the write lock
log_reading_execute_NoLock(t) ==
    /\ proc = "serving"
    /\ conns[t].pc = "parsed"
    /\ LET ins == Insert(conns[t].parsed_data)
       IN /\ conns' = [conns EXCEPT ![t] =
                          IF storage = "failing" \/ ins.error THEN DatabaseError(@)
                          ELSE [@ EXCEPT !.pc = "executed", !.row = ins.row,
                                         !.lastrowid = ins.lastrowid]]
          /\ lock' = lock
    /\ UNCHANGED <<proc, boot, API_KEY, SENSORS, tableExists, columns, rows,
                   sqlite_seq, now, req, resp, assigned, pin, pout, vin, vout, storage>>

\* get_db() and cursor.execute(INSERT) on the thread's own connection: the
\* statement opens a transaction and takes the write lock of the database
\* file. While another connection holds the lock the statement waits, and
\* raises "database is locked" when the busy timeout runs out.
log_reading_execute(t) ==
    /\ proc = "serving"
    /\ conns[t].pc = "parsed"
    /\ LET ins == Insert(conns[t].parsed_data)
       IN IF storage = "failing" \/ lock # 0 \/ ins.error
          THEN /\ conns' = [conns EXCEPT ![t] = DatabaseError(@)]
               /\ lock' = lock
          ELSE /\ conns' = [conns EXCEPT ![t] =
                               [@ EXCEPT !.pc = "executed", !.row = ins.row,
                                         !.lastrowid = ins.lastrowid]]
               /\ lock' = t
    /\ UNCHANGED <<proc, boot, API_KEY, SENSORS, tableExists, columns, rows,
                   sqlite_seq, now, req, resp, assigned, pin, pout, vin, vout, storage>>

\* conn.commit(), reading_id = cursor.lastrowid, conn.close() and the response
log_reading_commit(t) ==
    /\ proc = "serving"
    /\ conns[t].pc = "executed"
    /\ storage = "ok"
    /\ rows' = rows \cup {conns[t].row}
    /\ sqlite_seq' = Max(sqlite_seq, conns[t].lastrowid)
    /\ assigned' = Append(assigned, conns[t].lastrowid)
    /\ lock' = IF lock = t THEN 0 ELSE lock
    /\ conns' = [conns EXCEPT ![t] =
                    [@ EXCEPT !.pc = "returned", !.row = <<>>,
                              !.resp = [Response("log", 200, "success") EXCEPT
                                           !.id = conns[t].lastrowid,
                                           !.data = conns[t].parsed_data,
                                           !.db = TRUE]]]
    /\ UNCHANGED <<proc, boot, API_KEY, SENSORS, tableExists, columns, now,
                   req, resp, pin, pout, vin, vout, storage>>

\* conn.commit() raises sqlite3.Error (the database fails, or stays busy with
\* another connection until the timeout): conn.close() rolls the insert back
log_reading_rollback(t) ==
    /\ proc = "serving"
    /\ conns[t].pc = "executed"
    /\ storage = "failing" \/ \E u \in Threads \ {t} : conns[u].pc = "parsed"
    /\ lock' = IF lock = t THEN 0 ELSE lock
    /\ conns' = [conns EXCEPT ![t] = DatabaseError(@)]
    /\ UNCHANGED <<proc, boot, API_KEY, SENSORS, tableExists, columns, rows,
                   sqlite_seq, now, req, resp, assigned, pin, pout, vin, vout, storage>>

\* GET /readings
get_readings(r) ==
    /\ proc = "serving"
    /\ resp' \in ReadingsOutcomes(r)
    /\ req' = r
    /\ UNCHANGED <<proc, boot, API_KEY, SENSORS, tableExists, columns, rows,
                   sqlite_seq, now, assigned, pin, pout, vin, vout,
                   storage, conns, lock>>

\* GET /readings/csv
export_csv(r) ==
    /\ proc = "serving"
    /\ resp' \in CsvOutcomes(r)
    /\ req' = r
    /\ UNCHANGED <<proc, boot, API_KEY, SENSORS, tableExists, columns, rows,
                   sqlite_seq, now, assigned, pin, pout, vin, vout,
                   storage, conns, lock>>

\* GET /health
health ==
    /\ proc = "serving"
    /\ resp' = IF storage = "failing"
               THEN [Response("health", 503, "Database connection failed") EXCEPT
                        !.db = TRUE]
               ELSE [Response("health", 200, "ok") EXCEPT
                        !.count = Cardinality(rows), !.db = TRUE]
    /\ req' = Request("health", <<>>, <<>>, <<>>, <<>>)
    /\ UNCHANGED <<proc, boot, API_KEY, SENSORS, tableExists, columns, rows,
                   sqlite_seq, now, assigned, pin, pout, vin, vout,
                   storage, conns, lock>>

\* ========================================================== specifications
Pending == [done |-> FALSE, value |-> <<>>]
Returned(v) == [done |-> TRUE, value |-> v]

\* the state after the module is loaded, before main() runs, on an empty disk
InitServer ==
    /\ proc = "stopped"
    /\ boot = "none"
    /\ API_KEY = <<>>
    /\ SENSORS = <<>>
    /\ tableExists = FALSE
    /\ columns = <<>>
    /\ rows = {}
    /\ sqlite_seq = 0
    /\ now = 0
    /\ req = NoReq
    /\ resp = NoResp
    /\ assigned = <<>>
    /\ storage = "ok"
    /\ conns = [t \in Threads |-> Idle]
    /\ lock = 0

Init ==
    /\ InitServer
    /\ pin = NoneRaw
    /\ pout = Pending
    /\ vin = <<>>
    /\ vout = "idle"

Next ==
    \/ \E sensors \in Registries, key \in {<<>>, <<"k">>} : Start(sensors, key)
    \/ Stop
    \/ Tick
    \/ \E r \in LogRequests : log_reading(r)
    \/ \E r \in ReadingsRequests : get_readings(r)
    \/ \E r \in CsvRequests : export_csv(r)
    \/ health

Spec == Init /\ [][Next]_vars

NextAccess ==
    \/ \E sensors \in AccessRegistries, key \in ApiKeys : Start(sensors, key)
    \/ Stop
    \/ Tick
    \/ \E r \in AccessLogRequests : log_reading(r)
    \/ \E r \in AccessReadingsRequests : get_readings(r)
    \/ \E r \in AccessCsvRequests : export_csv(r)
    \/ health

SpecAccess == Init /\ [][NextAccess]_vars

NextQuery ==
    \/ \E sensors \in QueryRegistries : Start(sensors, <<>>)
    \/ Stop
    \/ Tick
    \/ \E r \in QueryLogRequests : log_reading(r)
    \/ \E r \in QueryReadingsRequests : get_readings(r)
    \/ \E r \in QueryCsvRequests : export_csv(r)
    \/ health

SpecQuery == Init /\ [][NextQuery]_vars

NextFault ==
    \/ \E sensors \in FaultRegistries, key \in {<<>>, <<"k">>} : Start(sensors, key)
    \/ Stop
    \/ Fail
    \/ Recover
    \/ \E r \in FaultLogRequests : log_reading(r)
    \/ \E r \in FaultReadingsRequests : get_readings(r)
    \/ \E r \in FaultCsvRequests : export_csv(r)
    \/ health

SpecFault == Init /\ [][NextFault]_vars

NextConcurrent ==
    \/ \E sensors \in ConcurrentRegistries : Start(sensors, <<>>)
    \/ Stop
    \/ Tick
    \/ Fail
    \/ Recover
    \/ \E t \in Threads, r \in ConcurrentLogRequests : log_reading_parse(t, r)
    \/ \E t \in Threads : log_reading_execute(t)
    \/ \E t \in Threads : log_reading_commit(t)
    \/ \E t \in Threads : log_reading_rollback(t)

SpecConcurrent == Init /\ [][NextConcurrent]_vars

\* ------------------------------------------------ the parser on its own
ParseChars == {"-", "+", "1", "5", ".", " ", "e", "a"}

ParseInputs ==
    {StrRaw(t) : t \in SeqsUpTo(ParseChars, MaxRawLen)}
    \cup {NoneRaw, BoolRaw(TRUE), BoolRaw(FALSE)}
    \cup {IntRaw(n) : n \in {0, 42, -7, 100}}
    \cup {FloatRaw(f[1], f[2]) :
            f \in {<<0, 0>>, <<42, 0>>, <<184, -1>>, <<-32, -1>>, <<5, -1>>, <<1, 2>>,
                   <<1, -4>>, <<1, -5>>, <<25, -6>>, <<1, 15>>, <<1, 16>>, <<12, 16>>}}

InitParse ==
    /\ InitServer
    /\ pin \in ParseInputs
    /\ pout = Pending
    /\ vin = <<>>
    /\ vout = "idle"

Parse ==
    /\ ~pout.done
    /\ pout' = Returned(parse_measurement(pin))
    /\ UNCHANGED <<proc, boot, API_KEY, SENSORS, tableExists, columns, rows,
                   sqlite_seq, now, req, resp, assigned, pin, vin, vout,
                   storage, conns, lock>>

NextParse == Parse

SpecParse == InitParse /\ [][NextParse]_vars

\* -------------------------------------------- the validation on its own
ValidateChars == {"a", "b", "A", "1", "_", "\n"}

\* descriptors: one without a field, and one for every field text
Descriptors == {<<>>} \cup {<<f>> : f \in SeqsUpTo(ValidateChars, MaxFieldLen)}

InitValidate ==
    /\ InitServer
    /\ pin = NoneRaw
    /\ pout = Pending
    /\ vin \in SeqsUpTo(Descriptors, MaxSensors)
    /\ vout = "idle"

Validate ==
    /\ vout = "idle"
    /\ vout' = validate_sensors_config(vin)
    /\ UNCHANGED <<proc, boot, API_KEY, SENSORS, tableExists, columns, rows,
                   sqlite_seq, now, req, resp, assigned, pin, pout, vin,
                   storage, conns, lock>>

NextValidate == Validate

SpecValidate == InitValidate /\ [][NextValidate]_vars

\* ================================================================== claims
\* a step in which a handler of the running server answers a request
HandlerStep ==
    /\ proc = "serving" /\ proc' = "serving"
    /\ UNCHANGED <<now, storage, conns, lock>>

\* the token a request provides: its X-API-Key header, or without one (none, or
\* an empty one) its api_key query parameter
TokenOf(r) == IF r.header # <<>> /\ r.header # <<"">> THEN r.header ELSE r.query

Permitted(r) == API_KEY = <<>> \/ TokenOf(r) = API_KEY

RegistryFields == {SENSORS[i][1] : i \in 1..Len(SENSORS)}

NoRegistryField(payload) == \A i \in 1..Len(payload) : payload[i][1] \notin RegistryFields

\* C1: on POST /log, GET /readings and GET /readings/csv every request is
\* allowed when no token is configured; when one is configured a request is
\* allowed if and only if the token it provides equals it exactly. A denied
\* request gets the unauthorized outcome and neither reads nor writes the store.
C1_AccessControl ==
    [][(HandlerStep /\ req'.op \in {"log", "readings", "csv"}) =>
          /\ resp'.status # 401 <=> Permitted(req')
          /\ resp'.status = 401 =>
                /\ resp'.message = "Unauthorized"
                /\ ~resp'.db
                /\ UNCHANGED <<tableExists, columns, rows, sqlite_seq, assigned>>]_vars

\* a request with a payload and the token in the wrong case was denied while
\* readings were stored
C1_Witness ==
    /\ req.op = "log" /\ req.payload # <<>>
    /\ API_KEY = <<"k">> /\ req.header = <<"K">>
    /\ resp.status = 401
    /\ rows # {}

\* C2 as stated: every ingest whose payload is empty or names no registry
\* field returns bad-request and leaves the stored readings unchanged.
C2_Original ==
    [][(HandlerStep /\ req'.op = "log" /\ NoRegistryField(req'.payload)) =>
          /\ resp'.status = 400
          /\ rows' = rows]_vars

\* C2: an ingest that passes access control and whose payload is empty or
\* names no registry field returns bad-request and leaves the stored readings
\* unchanged, whatever the store held.
C2_AuthorizedBadRequest ==
    [][(HandlerStep /\ req'.op = "log" /\ Permitted(req')
            /\ NoRegistryField(req'.payload)) =>
          /\ resp'.status = 400
          /\ ~resp'.db
          /\ UNCHANGED <<rows, sqlite_seq, assigned>>]_vars

\* a payload of unknown fields only was refused while readings were stored
C2_Witness ==
    /\ req.op = "log" /\ req.payload # <<>> /\ NoRegistryField(req.payload)
    /\ resp.status = 400
    /\ rows # {}

\* the stored value v is the parsed value p (null for a failed parse)
StoredIs(v, p) ==
    IF p = <<>> THEN v = NULL
    ELSE v.k \in {"int", "real"} /\ Normalize(NumOf(v).m, NumOf(v).e) = p[1]

PresentFields(payload) == RegistryFields \cap PayloadKeys(payload)

\* C3: an authorized ingest whose payload names a registry field creates
\* exactly one new reading, holding for each registry field of the payload its
\* parsed value and null in every other sensor column; the response is success
\* with the new id and the map of parsed values, nulls included.
C3_Original ==
    [][(HandlerStep /\ req'.op = "log" /\ Permitted(req')
            /\ ~NoRegistryField(req'.payload)) =>
          \E row \in rows' :
              /\ row \notin rows
              /\ rows' = rows \cup {row}
              /\ resp'.status = 200
              /\ resp'.id = row[ID].i
              /\ \A c \in DOMAIN row :
                    IF c \in PresentFields(req'.payload)
                    THEN StoredIs(row[c], parse_measurement(PayloadValue(req'.payload, c)))
                    ELSE c \notin {ID, TIMESTAMP} => row[c] = NULL
              /\ Range(resp'.data) =
                    {<<f, parse_measurement(PayloadValue(req'.payload, f))>> :
                        f \in PresentFields(req'.payload)}]_vars

\* C4: after a successful ingest, GET /readings with limit=1 returns exactly
\* the reading that ingest created.
C4_Original ==
    (resp.op = "readings" /\ resp.status = 200 /\ req.limit = << <<"1">> >>
        /\ assigned # <<>>) =>
        /\ Len(resp.rows) = 1
        /\ resp.rows[1][ID].i = Last(assigned)

\* C5: the ids returned by successful inserts are strictly increasing, and the
\* id returned to a caller is the id of the row its request created.
C5_Original ==
    /\ \A i, j \in 1..Len(assigned) : i < j => assigned[i] < assigned[j]
    /\ (resp.op = "log" /\ resp.status = 200) =>
          /\ resp.id = Last(assigned)
          /\ \E r \in rows : r[ID].i = resp.id

\* the limit a request asks for: 100 when absent or not an integer
Requested(arg) ==
    IF arg = <<>> \/ PyInt(arg[1]) = <<>> THEN 100 ELSE PyInt(arg[1])[1]

Clamp(n) == IF n < 1 THEN 1 ELSE IF n > 10000 THEN 10000 ELSE n

Descending(s) ==
    \A i, j \in 1..Len(s) : i < j => ~SqlLess(s[i][TIMESTAMP], s[j][TIMESTAMP])

Ascending(s) ==
    \A i, j \in 1..Len(s) : i < j => ~SqlLess(s[j][TIMESTAMP], s[i][TIMESTAMP])

\* C6 as stated: a query never returns more than min(limit, 10000) rows, in
\* descending timestamp order, and a limit below 1 behaves as limit 1.
C6_Original ==
    (resp.op = "readings" /\ resp.status = 200) =>
        /\ Len(resp.rows) <= Min(Requested(req.limit), 10000)
        /\ Descending(resp.rows)
        /\ Requested(req.limit) < 1 => Len(resp.rows) = Min(1, Cardinality(rows))

\* C6: a query clamps the limit to [1, 10000], 100 when absent or not an
\* integer: it never returns more than max(1, min(limit, 10000)) rows, the
\* rows are stored readings in descending timestamp order, and a limit below 1
\* behaves as limit 1.
C6_ClampedQuery ==
    (resp.op = "readings" /\ resp.status = 200) =>
        LET lim == Clamp(Requested(req.limit))
        IN /\ resp.limit = lim
           /\ Len(resp.rows) = Min(lim, Cardinality(rows))
           /\ Range(resp.rows) \subseteq rows
           /\ Cardinality(Range(resp.rows)) = Len(resp.rows)
           /\ Descending(resp.rows)

\* limit=0 returned one of two stored readings
C6_Witness ==
    /\ resp.op = "readings" /\ resp.status = 200
    /\ req.limit = << <<"0">> >>
    /\ Len(resp.rows) = 1
    /\ Cardinality(rows) = 2

\* C7: the export is the header row, the column list of the table, followed
\* by every reading ever inserted exactly once in ascending timestamp order, as
\* many data rows as there were successful inserts, and nothing after them.
C7_ExportAll ==
    (resp.op = "csv" /\ resp.status = 200) =>
        /\ Len(resp.lines) = 1 + Len(assigned)
        /\ resp.lines[1] = Join(columns) \o <<"\n">>
        /\ \E s \in Perms(rows) :
              /\ Ascending(s)
              /\ \A i \in 1..Len(s) : resp.lines[i + 1] = CsvLine(columns, s[i])

\* two readings of different timestamps were exported
C7_Witness ==
    /\ resp.op = "csv" /\ resp.status = 200
    /\ Len(resp.lines) = 3
    /\ \E r1, r2 \in rows : SqlLess(r1[TIMESTAMP], r2[TIMESTAMP])

\* C10: after init(registry) the column set is the one the table had before
\* ({id, timestamp} for no table) united with the registry's fields, and init
\* does not fail, the first time or again.
C10_Original ==
    [][(proc = "stopped" /\ now' = now /\ validate_sensors_config(SENSORS') = "ok") =>
          /\ boot' = "ok"
          /\ tableExists'
          /\ Range(columns') =
                (IF tableExists THEN Range(columns) ELSE {ID, TIMESTAMP})
                \cup {SENSORS'[i][1] : i \in 1..Len(SENSORS')}]_vars

\* a text made of a lowercase letter followed only by lowercase letters,
\* digits and underscores
IsIdentifier(f) ==
    /\ Len(f) >= 1
    /\ f[1] \in LowerLetters
    /\ \A i \in 2..Len(f) : f[i] \in LowerLetters \cup Digits \cup {"_"}

NoSharedField(sensors) ==
    \A i, j \in 1..Len(sensors) : i # j => SensorGet(sensors[i]) # SensorGet(sensors[j])

\* C8: validate accepts a list of descriptors if and only if every field is an
\* identifier (lowercase letter, then only lowercase letters, digits or
\* underscores; an empty or missing field is not one) and no two descriptors
\* share a field; otherwise it fails with a configuration error.
C8_Original ==
    vout # "idle" =>
        /\ vout \in {"ok", "ValueError"}
        /\ vout = "ok" <=>
              /\ \A i \in 1..Len(vin) : IsIdentifier(SensorGet(vin[i]))
              /\ NoSharedField(vin)

\* the words of: optional sign, digits, at most one decimal point followed by digits
IsNumericText(p) ==
    LET body == IF p # <<>> /\ p[1] \in {"-", "+"} THEN Tail(p) ELSE p
        n == Len(body)
    IN /\ n >= 1
       /\ \A i \in 1..n : body[i] \in Digits \cup {"."}
       /\ Cardinality({i \in 1..n : body[i] = "."}) <= 1
       /\ body[n] \in Digits

NumericPrefixes(t) == {k \in 1..Len(t) : IsNumericText(SubSeq(t, 1, k))}

LongestNumericPrefix(t) ==
    SubSeq(t, 1, CHOOSE k \in NumericPrefixes(t) : \A j \in NumericPrefixes(t) : j <= k)

\* what the parser is to return for a text
ParseOfText(text) ==
    LET t == Strip(text)
    IN IF t = <<>> \/ NumericPrefixes(t) = {} THEN <<>>
       ELSE <<PyFloat(LongestNumericPrefix(t))>>

\* C9: parse(raw) returns null for null input, for text that is empty once
\* stripped and for text with no leading numeric prefix; otherwise the value of
\* the longest leading numeric prefix of the stripped text; and a number is
\* returned as that same number.
C9_Original ==
    pout.done =>
        pout.value =
            CASE pin.t = "none" -> <<>>
              [] pin.t \in {"int", "float"} -> <<Normalize(pin.m, pin.e)>>
              [] pin.t = "str" -> ParseOfText(pin.s)
              [] pin.t = "bool" -> <<>>

\* the same for inputs that arrive as text, null or boolean
C9_TextOnly == pin.t \notin {"int", "float"} => C9_Original

\* the reading r is still stored after the step, with the same id, timestamp
\* and values, and null in every column the step added
Kept(r) ==
    \E s \in rows' :
        /\ DOMAIN r \subseteq DOMAIN s
        /\ \A c \in DOMAIN r : s[c] = r[c]
        /\ \A c \in DOMAIN s \ DOMAIN r : s[c] = NULL

\* C11: readings are append-only. Across ingest, query, export, health and
\* init (migration) every stored reading keeps its id, timestamp and values and
\* is never deleted; the set of readings changes only by a successful ingest,
\* which adds exactly one reading.
C11_AppendOnly ==
    [][/\ \A r \in rows : Kept(r)
       /\ IF HandlerStep /\ req'.op = "log" /\ resp'.status = 200
          THEN \E row \in rows' \ rows : rows' = rows \cup {row}
          ELSE /\ Cardinality(rows') = Cardinality(rows)
               /\ columns' = columns => rows' = rows]_vars

\* two readings, one of them made before a migration added a column, have
\* been exported
C11_Witness ==
    /\ resp.op = "csv" /\ resp.status = 200
    /\ Cardinality(rows) = 2
    /\ SENSORS = <<<<FB>>, <<ID>>>>
    /\ \E r \in rows : FA \in DOMAIN r /\ r[FA] # NULL


\* a step in which main() runs: the process was not serving before it
StartStep == proc = "stopped" /\ UNCHANGED <<now, storage>>

\* C12: start-up validates the registry first, then initialises the storage,
\* and only then serves. If validation fails the process terminates with a
\* configuration error without serving and without touching the store; if init
\* raises a storage error it terminates without serving; a process that serves
\* has a valid registry and a table with a column for every registry field.
C12_StartupOrder ==
    /\ [](proc = "serving" =>
            /\ boot = "ok"
            /\ validate_sensors_config(SENSORS) = "ok"
            /\ tableExists
            /\ RegistryFields \subseteq Range(columns))
    /\ [](req.op # "none" => proc = "serving")
    /\ [][StartStep =>
            /\ req' = NoReq /\ resp' = NoResp
            /\ proc' = "serving" <=> boot' = "ok"
            /\ boot' \in {"ok", "ConfigError", "StorageError"}
            /\ validate_sensors_config(SENSORS') # "ok" =>
                  /\ boot' = "ConfigError"
                  /\ UNCHANGED <<tableExists, columns, rows, sqlite_seq>>
            /\ storage = "failing" /\ validate_sensors_config(SENSORS') = "ok" =>
                  boot' = "StorageError"]_vars

\* a restart with a duplicate field was refused as a configuration error, the
\* stored readings untouched, although the database would have raised an error
C12_Witness ==
    /\ proc = "stopped" /\ boot = "ConfigError"
    /\ SENSORS = <<<<FA>>, <<FA>>>>
    /\ storage = "failing"
    /\ rows # {}
    /\ FA \notin Range(columns)

\* the request r reaches the database, and the database raises an error
StorageErrorRaised(r) ==
    /\ storage = "failing"
    /\ Permitted(r)
    /\ r.op = "log" => ~NoRegistryField(r.payload)

\* the response is a structured error outcome for a storage error: an error
\* status and a message that is neither the unauthorized nor a bad-request one
StorageErrorOutcome(r) ==
    /\ r.status \in 500..599
    /\ r.message = "Database error"
    /\ r.message \notin {"Unauthorized", "No data received", "No valid sensor data found"}

\* C13: a storage error raised while handling an ingest, query or export
\* request is reported to the caller as a structured error outcome with an
\* error status and a message distinct from bad-request and unauthorized; the
\* process keeps serving, the failed insert creates no reading, and no reading
\* appears later without a new successful ingest (no retry).
C13_Original ==
    [][/\ (HandlerStep /\ req'.op \in {"log", "readings", "csv"}
            /\ StorageErrorRaised(req')) =>
              /\ StorageErrorOutcome(resp')
              /\ UNCHANGED <<tableExists, columns, rows, sqlite_seq, assigned>>
       /\ rows' # rows /\ proc = "serving" =>
              HandlerStep /\ req'.op = "log" /\ resp'.status = 200]_vars

\* the same for ingest and query requests only
C13_IngestQuery ==
    [][/\ (HandlerStep /\ req'.op \in {"log", "readings"}
            /\ StorageErrorRaised(req')) =>
              /\ StorageErrorOutcome(resp')
              /\ UNCHANGED <<tableExists, columns, rows, sqlite_seq, assigned>>
       /\ rows' # rows /\ proc = "serving" =>
              HandlerStep /\ req'.op = "log" /\ resp'.status = 200]_vars

\* the threads whose request has been answered with success
Succeeded == {t \in Threads : conns[t].pc = "returned" /\ conns[t].resp.status = 200}

\* the row holds the parsed values of the thread's request in the columns the
\* request named and null in every other sensor column
HoldsValuesOf(row, c) ==
    \A col \in DOMAIN row :
        IF col \in ParsedKeys(c.parsed_data)
        THEN StoredIs(row[col], ParsedValue(c.parsed_data, col))
        ELSE col \notin {ID, TIMESTAMP} => row[col] = NULL

\* the thread t answers its request in this step
Answers(t) == conns[t].pc # "returned" /\ conns'[t].pc = "returned"

\* C14: concurrent ingests are individually atomic. For every interleaving of
\* ingests handled at once, each on its own connection, a request answered
\* with success has created exactly one complete row holding exactly its own
\* parsed values; distinct successful requests get distinct ids; no row mixes
\* the values of two requests or is lost; a request that does not succeed
\* creates no row.
C14_Original ==
    /\ [](\A t \in Succeeded :
            /\ Cardinality({row \in rows : row[ID].i = conns[t].resp.id}) = 1
            /\ \A row \in rows : row[ID].i = conns[t].resp.id =>
                  HoldsValuesOf(row, conns[t])
            /\ conns[t].resp.data = conns[t].parsed_data
            /\ \A u \in Succeeded \ {t} : conns[u].resp.id # conns[t].resp.id)
    /\ [](/\ Cardinality(rows) = Len(assigned)
          /\ \A i, j \in 1..Len(assigned) : i # j => assigned[i] # assigned[j])
    /\ [][/\ \A t \in Threads : Answers(t) =>
                  IF conns'[t].resp.status = 200
                  THEN /\ conns[t].row \notin rows
                       /\ rows' = rows \cup {conns[t].row}
                       /\ DOMAIN conns[t].row = Range(columns)
                  ELSE rows' = rows
          /\ rows' # rows /\ proc = "serving" =>
                  \E t \in Threads : Answers(t) /\ conns'[t].resp.status = 200]_vars

\* the same where no registry field is named id: the values in question are
\* those of the sensor columns
C14_SensorColumns ==
    /\ [](ID \notin RegistryFields => \A t \in Succeeded :
            /\ Cardinality({row \in rows : row[ID].i = conns[t].resp.id}) = 1
            /\ \A row \in rows : row[ID].i = conns[t].resp.id =>
                  HoldsValuesOf(row, conns[t])
            /\ conns[t].resp.data = conns[t].parsed_data
            /\ \A u \in Succeeded \ {t} : conns[u].resp.id # conns[t].resp.id)
    /\ [](/\ Cardinality(rows) = Len(assigned)
          /\ \A i, j \in 1..Len(assigned) : i # j => assigned[i] # assigned[j])
    /\ [][/\ \A t \in Threads : Answers(t) =>
                  IF conns'[t].resp.status = 200
                  THEN /\ conns[t].row \notin rows
                       /\ rows' = rows \cup {conns[t].row}
                       /\ DOMAIN conns[t].row = Range(columns)
                  ELSE rows' = rows
          /\ rows' # rows /\ proc = "serving" =>
                  \E t \in Threads : Answers(t) /\ conns'[t].resp.status = 200]_vars

\* two ingests were in flight at once and both were answered with success
C14_BothSucceeded ==
    /\ Cardinality(Succeeded) = 2
    /\ Len(assigned) = 2
    /\ \E t, u \in Succeeded : conns[t].resp.id = 1 /\ conns[u].resp.id = 2
                                /\ conns[t].req # conns[u].req
====
